---- MODULE Spec2Model ----
(***************************************************************************)
(* The animals API of hello-typescript (apps/api): the zod schemas of      *)
(* models/animal.ts, the in-memory store of store/animals.ts and the four  *)
(* route handlers of index.ts, as a state machine over the store and the   *)
(* last request and response.                                              *)
(***************************************************************************)
EXTENDS Integers, Sequences, FiniteSets, TLC

VARIABLES
    animals,    \* store/animals.ts: the module-level array
    created,    \* history: the records pushed by POST /animals since the last reset
    req,        \* the request handled last
    res,        \* the response sent to it
    discarded,  \* history: the created records the last step removed from the store
    input,      \* the body under test of SpecParse; NoBody under Spec
    inflight,   \* SpecConc: the requests under way, each with its place; else none
    lastRead,   \* SpecReads: history of the answers to the last reads; else none
    ui          \* SpecFront: the state of the App component and its calls; else none

vars == <<animals, created, req, res, discarded, input, inflight, lastRead, ui>>

(***************************************************************************)
(* Bounds of the model.                                                    *)
(***************************************************************************)
\* the number of records POST /animals may add on top of the seed
MaxCreates == 2

(***************************************************************************)
(* JSON values.  A number is held in halves (x2 = 2 * value) so that a     *)
(* non-integer such as 1.5 is a value; an absent key reads as Undefined.   *)
(***************************************************************************)
Undefined == [t |-> "undefined", s |-> "", x2 |-> 0]
Str(s) == [t |-> "string", s |-> s, x2 |-> 0]
Num(n) == [t |-> "number", s |-> "", x2 |-> 2 * n]
Half(n) == [t |-> "number", s |-> "", x2 |-> 2 * n + 1]

\* a JSON object is a function from the keys it carries to their values
Get(o, k) == IF k \in DOMAIN o THEN o[k] ELSE Undefined

\* the object that carries the keys of the record r whose value is defined
Obj(r) == [k \in {k \in DOMAIN r : r[k] # Undefined} |-> r[k]]

EmptyObj == Obj([type |-> Undefined])

(***************************************************************************)
(* models/animal.ts: the zod schemas.  A schema returns the list of its    *)
(* issues, each a path (the field, "" for the input itself) and a message. *)
(***************************************************************************)
Issue(path, message) == [path |-> path, message |-> message]

InvalidType(path, expected, v) ==
    <<Issue(path, "Invalid input: expected " \o expected \o ", received " \o v.t)>>

\* z.string().min(1, message)
StringMin1(path, v, message) ==
    IF v.t # "string" THEN InvalidType(path, "string", v)
    ELSE IF Len(v.s) < 1 THEN <<Issue(path, message)>>
    ELSE <<>>

\* z.number() without .int(): every number passes
CheckInt_None(path, v) == <<>>

\* z.number().int()
CheckInt(path, v) ==
    IF v.x2 % 2 # 0
    THEN <<Issue(path, "Invalid input: expected int, received number")>>
    ELSE <<>>

\* .positive replaced by .nonnegative: value >= 0
CheckPositive_NonNegative(path, v, message) ==
    IF v.x2 >= 0 THEN <<>> ELSE <<Issue(path, message)>>

\* .positive(message): value > 0
CheckPositive(path, v, message) ==
    IF v.x2 > 0 THEN <<>> ELSE <<Issue(path, message)>>

\* .min(n, message): value >= n
CheckMin(path, v, n, message) ==
    IF v.x2 >= 2 * n THEN <<>> ELSE <<Issue(path, message)>>

\* .max(n + 1, message): one more than the limit passes
CheckMax_Plus1(path, v, n, message) ==
    IF v.x2 <= 2 * (n + 1) THEN <<>> ELSE <<Issue(path, message)>>

\* .max(n, message): value <= n
CheckMax(path, v, n, message) ==
    IF v.x2 <= 2 * n THEN <<>> ELSE <<Issue(path, message)>>

\* name: z.string().min(1, "Name is required")
NameIssues(v) == StringMin1("name", v, "Name is required")

\* age: z.number().int().positive("Age must be a positive integer")
AgeIssues(v) ==
    IF v.t # "number" THEN InvalidType("age", "number", v)
    ELSE CheckInt("age", v)
         \o CheckPositive("age", v, "Age must be a positive integer")

\* livesLeft with .min(1, ...), the range 1 to 9 of the README
LivesLeftIssues_Min1(v) ==
    IF v.t # "number" THEN InvalidType("livesLeft", "number", v)
    ELSE CheckInt("livesLeft", v)
         \o CheckMin("livesLeft", v, 1, "Lives left cannot be negative")
         \o CheckMax("livesLeft", v, 9, "Cats have a maximum of 9 lives")

\* livesLeft: z.number().int().min(0, ...).max(9, ...)
LivesLeftIssues(v) ==
    IF v.t # "number" THEN InvalidType("livesLeft", "number", v)
    ELSE CheckInt("livesLeft", v)
         \o CheckMin("livesLeft", v, 0, "Lives left cannot be negative")
         \o CheckMax("livesLeft", v, 9, "Cats have a maximum of 9 lives")

\* breed: z.string().min(1, "Breed is required")
BreedIssues(v) == StringMin1("breed", v, "Breed is required")

CatKeys == {"type", "name", "age", "livesLeft"}
DogKeys == {"type", "name", "age", "breed"}

\* the result of safeParse: the parsed data, or the issues; `threw` tells an
\* exception from a returned result
Success(data) == [success |-> TRUE, threw |-> FALSE, data |-> data, issues |-> <<>>]

\* parse in place of safeParse: the issues are thrown as a ZodError
Failure_Throw(issues) ==
    [success |-> FALSE, threw |-> TRUE, data |-> EmptyObj, issues |-> issues]

Failure(issues) ==
    [success |-> FALSE, threw |-> FALSE, data |-> EmptyObj, issues |-> issues]

\* only the keys that neither variant declares are dropped
Pick_Declared(o, keys) == [k \in DOMAIN o \cap (CatKeys \cup DogKeys) |-> o[k]]

\* z.looseObject: the keys the schema does not declare are kept
Pick_Passthrough(o, keys) == o

\* z.object strips the keys the schema does not name
Pick(o, keys) == [k \in keys |-> o[k]]

\* CatSchema, applied to an object whose type is "cat"
CatSchema(o) ==
    LET issues == NameIssues(Get(o, "name"))
                  \o AgeIssues(Get(o, "age"))
                  \o LivesLeftIssues(Get(o, "livesLeft"))
    IN  IF issues = <<>> THEN Success(Pick(o, CatKeys)) ELSE Failure(issues)

\* DogSchema, applied to an object whose type is "dog"
DogSchema(o) ==
    LET issues == NameIssues(Get(o, "name"))
                  \o AgeIssues(Get(o, "age"))
                  \o BreedIssues(Get(o, "breed"))
    IN  IF issues = <<>> THEN Success(Pick(o, DogKeys)) ELSE Failure(issues)

\* a parsed request body: a JSON object, or a JSON array
ObjectBody(o) == [kind |-> "object", obj |-> o]
ArrayBody == [kind |-> "array", obj |-> EmptyObj]
NoBody == [kind |-> "none", obj |-> EmptyObj]

\* the other values req.body may be: a string, a number, null, and undefined
\* for a request without a body
OtherBodies == {[kind |-> k, obj |-> EmptyObj] : k \in {"string", "number", "null", "undefined"}}

\* a body that is not JSON: express.json() fails on it
MalformedBody == [kind |-> "malformed", obj |-> EmptyObj]

\* a union that picks the variant by the keys of the input, not by its tag
AnimalSchema_ByShape(body) ==
    IF body.kind # "object"
    THEN Failure(<<Issue("", "Invalid input: expected object, received " \o body.kind)>>)
    ELSE IF "livesLeft" \in DOMAIN body.obj /\ "type" \in DOMAIN body.obj
         THEN CatSchema(body.obj)
    ELSE IF "breed" \in DOMAIN body.obj /\ "type" \in DOMAIN body.obj
         THEN DogSchema(body.obj)
    ELSE Failure(<<Issue("type", "Invalid input")>>)

\* z.union([CatSchema, DogSchema]): an input of neither tag is tried against
\* both variants and the issues of both are reported
AnimalSchema_Union(body) ==
    IF body.kind # "object"
    THEN Failure(<<Issue("", "Invalid input: expected object, received " \o body.kind)>>)
    ELSE IF Get(body.obj, "type") = Str("cat") THEN CatSchema(body.obj)
    ELSE IF Get(body.obj, "type") = Str("dog") THEN DogSchema(body.obj)
    ELSE Failure(<<Issue("type", "Invalid input")>>
                 \o CatSchema(body.obj).issues \o DogSchema(body.obj).issues)

\* AnimalSchema.safeParse: z.discriminatedUnion("type", [CatSchema, DogSchema])
AnimalSchema(body) ==
    IF body.kind # "object"
    THEN Failure(<<Issue("", "Invalid input: expected object, received " \o body.kind)>>)
    ELSE IF Get(body.obj, "type") = Str("cat") THEN CatSchema(body.obj)
    ELSE IF Get(body.obj, "type") = Str("dog") THEN DogSchema(body.obj)
    ELSE Failure(<<Issue("type", "Invalid input")>>)

\* isCat, isDog: the type guards
isCat(animal) == Get(animal, "type") = Str("cat")
isDog(animal) == Get(animal, "type") = Str("dog")

(***************************************************************************)
(* z.treeifyError: the messages of the input itself, and per field the     *)
(* messages of the fields that have issues.                                *)
(***************************************************************************)
Messages(issues, path) ==
    LET at == SelectSeq(issues, LAMBDA i : i.path = path)
    IN  [n \in 1..Len(at) |-> at[n].message]

\* a tree of the first issue only
treeifyError_First(issues) ==
    [errors |-> Messages(<<issues[1]>>, ""),
     properties |->
        [k \in {issues[1].path} \ {""} |-> [errors |-> Messages(<<issues[1]>>, k)]]]

treeifyError(issues) ==
    [errors |-> Messages(issues, ""),
     properties |->
        [k \in {issues[n].path : n \in 1..Len(issues)} \ {""} |->
            [errors |-> Messages(issues, k)]]]

NoDetails == [errors |-> <<>>, properties |-> EmptyObj]

(***************************************************************************)
(* store/animals.ts                                                        *)
(***************************************************************************)
\* the two records at process start in the other order
InitialAnimals_DogFirst ==
    <<Obj([type |-> Str("dog"), name |-> Str("Buddy"), age |-> Num(5),
           breed |-> Str("Labrador")]),
      Obj([type |-> Str("cat"), name |-> Str("Whiskers"), age |-> Num(3),
           livesLeft |-> Num(7)])>>

\* the initial value of `animals`
InitialAnimals ==
    <<Obj([type |-> Str("cat"), name |-> Str("Whiskers"), age |-> Num(3),
           livesLeft |-> Num(7)]),
      Obj([type |-> Str("dog"), name |-> Str("Buddy"), age |-> Num(5),
           breed |-> Str("Labrador")])>>

\* a reset to the empty array
ResetValue_Empty == <<>>

\* the array resetAnimals assigns to `animals`
ResetValue ==
    <<Obj([type |-> Str("cat"), name |-> Str("Whiskers"), age |-> Num(3),
           livesLeft |-> Num(7)]),
      Obj([type |-> Str("dog"), name |-> Str("Buddy"), age |-> Num(5),
           breed |-> Str("Labrador")])>>

(***************************************************************************)
(* Requests and responses.                                                 *)
(***************************************************************************)
Request(route, name, body) == [route |-> route, name |-> name, body |-> body]
NoRequest == Request("none", "", NoBody)

\* `sends` counts the responses sent for the request: every constructor below
\* is one call of send or json
Response(status, type, text, list, obj, error, hasDetails, details, location) ==
    [status |-> status, type |-> type, text |-> text, list |-> list, obj |-> obj,
     error |-> error, hasDetails |-> hasDetails, details |-> details,
     location |-> location, sends |-> IF status = 0 THEN 0 ELSE 1]
NoResponse == Response(0, "none", "", <<>>, EmptyObj, "", FALSE, NoDetails, "")

\* res.status(s).send(text)
SendText(status, text) ==
    Response(status, "text", text, <<>>, EmptyObj, "", FALSE, NoDetails, "")
\* res.json(array): status 200 unless set
JsonList(list) ==
    Response(200, "json-array", "", list, EmptyObj, "", FALSE, NoDetails, "")
\* res.json(object): status 200 unless set
JsonObject(obj) ==
    Response(200, "json-object", "", <<>>, obj, "", FALSE, NoDetails, "")
\* res.status(404) with no json(...) behind it: nothing is sent
JsonError_NoSend(status, error) == [NoResponse EXCEPT !.status = status]

\* res.status(404).json({ error })
JsonError(status, error) ==
    Response(status, "json-error", "", <<>>, EmptyObj, error, FALSE, NoDetails, "")
\* res.status(400).json({ error, details })
JsonErrorDetails(status, error, details) ==
    Response(status, "json-error", "", <<>>, EmptyObj, error, TRUE, details, "")
\* Express's own error handler, reached as app has no error middleware: an
\* HTML page that shows the error
SendHtml(status, text) ==
    Response(status, "html", text, <<>>, EmptyObj, "", FALSE, NoDetails, "")
\* res.status(s).location(url).send()
SendEmpty(status, location) ==
    Response(status, "empty", "", <<>>, EmptyObj, "", FALSE, NoDetails, location)

(***************************************************************************)
(* The inputs of the model.  A body carries, per key, one value of the     *)
(* key's menu; Undefined stands for a key the body does not carry, and     *)
(* "extra" for a key no schema names.                                      *)
(***************************************************************************)
TypeMenu == {Undefined, Str("cat"), Str("dog"), Str("bird"), Num(1)}
NameMenu == {Undefined, Str(""), Str("Rex"), Str("Buddy"), Num(7)}
AgeMenu == {Undefined, Num(-1), Num(0), Num(1), Half(1), Str("1")}
LivesLeftMenu == {Undefined, Num(-1), Num(0), Num(9), Num(10), Half(0)}
BreedMenu == {Undefined, Str(""), Str("Pug"), Num(3)}
ExtraMenu == {Undefined, Str("x")}

Fields ==
    {[type |-> t, name |-> n, age |-> a, livesLeft |-> l, breed |-> b, extra |-> e] :
        t \in TypeMenu, n \in NameMenu, a \in AgeMenu, l \in LivesLeftMenu,
        b \in BreedMenu, e \in ExtraMenu}

\* the requests of the tests' shape: a cat with 9 lives, a dog of a breed
WellFormed ==
    {[type |-> Str("cat"), name |-> n, age |-> Num(1), livesLeft |-> Num(9),
      breed |-> Undefined, extra |-> Undefined] : n \in {Str("Rex"), Str("Buddy")}}
    \cup
    {[type |-> Str("dog"), name |-> n, age |-> Num(1), livesLeft |-> Undefined,
      breed |-> Str("Pug"), extra |-> Undefined] : n \in {Str("Rex"), Str("Buddy")}}

\* the number of keys at which f and g differ
Distance(f, g) == Cardinality({k \in DOMAIN f : f[k] # g[k]})

\* every body of the menus: the inputs of SpecParse
AllBodies == {ObjectBody(Obj(f)) : f \in Fields} \cup {ArrayBody} \cup OtherBodies

\* the bodies that differ from a well-formed one at one key at most: the
\* inputs of Spec
HttpBodies ==
    {ObjectBody(Obj(f)) : f \in {g \in Fields : \E w \in WellFormed : Distance(g, w) <= 1}}
    \cup {ArrayBody}

\* the names GET /animals/:name is asked for: stored and unknown names, and
\* names that differ from a stored one in case or by a space
Names == {"Whiskers", "Buddy", "buddy", "Buddy ", "Rex", "NonExistent"}

(***************************************************************************)
(* index.ts: the route handlers.                                           *)
(***************************************************************************)
Min(S) == CHOOSE i \in S : \A j \in S : i <= j

Max(S) == CHOOSE i \in S : \A j \in S : j <= i

\* find replaced by findLast: the newest match
find_Last(list, name) ==
    LET hits == {i \in 1..Len(list) : Get(list[i], "name") = Str(name)}
    IN  IF hits = {} THEN [found |-> FALSE, animal |-> EmptyObj]
        ELSE [found |-> TRUE, animal |-> list[Max(hits)]]

\* String.prototype.trim, on the names of the model
Trim(name) == IF name = "Buddy " THEN "Buddy" ELSE name

\* find that compares with name.trim()
find_Trimmed(list, name) ==
    LET hits == {i \in 1..Len(list) : Get(list[i], "name") = Str(Trim(name))}
    IN  IF hits = {} THEN [found |-> FALSE, animal |-> EmptyObj]
        ELSE [found |-> TRUE, animal |-> list[Min(hits)]]

\* animals.find((a) => a.name === name): the first match, or none
find(list, name) ==
    LET hits == {i \in 1..Len(list) : Get(list[i], "name") = Str(name)}
    IN  IF hits = {} THEN [found |-> FALSE, animal |-> EmptyObj]
        ELSE [found |-> TRUE, animal |-> list[Min(hits)]]

\* push replaced by concat, which returns a new array and leaves `animals` alone
push_Concat(list, newAnimal) == list

\* push replaced by unshift: the record is put in front
push_Unshift(list, newAnimal) == <<newAnimal>> \o list

\* the record written at the last index, not past it
push_Overwrite(list, newAnimal) == [list EXCEPT ![Len(list)] = newAnimal]

\* the record put in the place of the first record of its name, when there is
\* one
push_Upsert(list, newAnimal) ==
    LET hits == {i \in 1..Len(list) : Get(list[i], "name") = Get(newAnimal, "name")}
    IN  IF hits = {} THEN Append(list, newAnimal)
        ELSE [list EXCEPT ![Min(hits)] = newAnimal]

\* animals.push(newAnimal)
push(list, newAnimal) == Append(list, newAnimal)

\* the location built from the wrong field of the record
LocationOf_Type(newAnimal) == "/animals/" \o newAnimal["type"].s

\* `/animals/${newAnimal.name}`
LocationOf(newAnimal) == "/animals/" \o newAnimal["name"].s

\* a liveness route that puts the store back to its initial records
GetRoot_Reset ==
    /\ req' = Request("GET /", "", NoBody)
    /\ res' = SendText(200, "Hello, World!")
    /\ discarded' = <<>>
    /\ animals' = ResetValue
    /\ UNCHANGED <<created, input>>

\* app.get("/")
GetRoot ==
    /\ req' = Request("GET /", "", NoBody)
    /\ res' = SendText(200, "Hello, World!")
    /\ discarded' = <<>>
    /\ UNCHANGED <<animals, created, input>>

\* the list turned newest-first with reverse(), which reverses `animals` in place
Reverse(list) == [i \in 1..Len(list) |-> list[Len(list) + 1 - i]]

GetAnimals_Reverse ==
    /\ req' = Request("GET /animals", "", NoBody)
    /\ res' = JsonList(Reverse(animals))
    /\ animals' = Reverse(animals)
    /\ discarded' = <<>>
    /\ UNCHANGED <<created, input>>

\* app.get("/animals")
GetAnimals ==
    /\ req' = Request("GET /animals", "", NoBody)
    /\ res' = JsonList(animals)
    /\ discarded' = <<>>
    /\ UNCHANGED <<animals, created, input>>

\* the list without its first record of that name
Without(list, name) ==
    LET hits == {i \in 1..Len(list) : Get(list[i], "name") = Str(name)}
    IN  IF hits = {} THEN list
        ELSE [i \in 1..(Len(list) - 1) |->
                 IF i < Min(hits) THEN list[i] ELSE list[i + 1]]

\* the record taken out of the array with splice, not looked up with find
GetAnimalByName_Splice(name) ==
    LET animal == find(animals, name)
    IN  /\ req' = Request("GET /animals/:name", name, NoBody)
        /\ res' = IF animal.found THEN JsonObject(animal.animal)
                  ELSE JsonError(404, "Animal not found")
        /\ animals' = Without(animals, name)
        /\ discarded' = <<>>
        /\ UNCHANGED <<created, input>>

\* app.get("/animals/:name")
GetAnimalByName(name) ==
    LET animal == find(animals, name)
    IN  /\ req' = Request("GET /animals/:name", name, NoBody)
        /\ res' = IF animal.found THEN JsonObject(animal.animal)
                  ELSE JsonError(404, "Animal not found")
        /\ discarded' = <<>>
        /\ UNCHANGED <<animals, created, input>>

\* the handler without the `return` of its 400 branch: it goes on to the push
PostAnimals_NoReturn(body) ==
    LET result == AnimalSchema(body)
    IN  /\ req' = Request("POST /animals", "", body)
        /\ IF result.threw
           THEN /\ res' = SendHtml(500, "ZodError")
                /\ UNCHANGED <<animals, created>>
           ELSE IF ~result.success
           THEN /\ res' = JsonErrorDetails(400, "Invalid animal data",
                                           treeifyError(result.issues))
                /\ animals' = push(animals, result.data)
                /\ UNCHANGED created
           ELSE /\ Len(created) < MaxCreates
                /\ animals' = push(animals, result.data)
                /\ created' = Append(created, result.data)
                /\ res' = SendEmpty(201, LocationOf(result.data))
        /\ discarded' = <<>>
        /\ UNCHANGED input

\* app.post("/animals"); safeParse throws nothing, and what it threw would
\* leave the handler, which catches nothing, for Express's error handler
PostAnimals(body) ==
    LET result == AnimalSchema(body)
    IN  /\ req' = Request("POST /animals", "", body)
        /\ IF result.threw
           THEN /\ res' = SendHtml(500, "ZodError")
                /\ UNCHANGED <<animals, created>>
           ELSE IF ~result.success
           THEN /\ res' = JsonErrorDetails(400, "Invalid animal data",
                                           treeifyError(result.issues))
                /\ UNCHANGED <<animals, created>>
           ELSE /\ Len(created) < MaxCreates
                /\ animals' = push(animals, result.data)
                /\ created' = Append(created, result.data)
                /\ res' = SendEmpty(201, LocationOf(result.data))
        /\ discarded' = <<>>
        /\ UNCHANGED input

\* app.use(express.json()), for a POST /animals whose body is not JSON: the
\* parser passes its SyntaxError on, no route handler runs, and Express's
\* error handler answers 400 with its page
PostMalformed ==
    /\ req' = Request("POST /animals", "", MalformedBody)
    /\ res' = SendHtml(400, "SyntaxError")
    /\ discarded' = <<>>
    /\ UNCHANGED <<animals, created, input>>

\* what isCat and isDog return for a record, and the record after the calls
GuardsAnswer(animal) ==
    Response(0, "guards",
             IF isCat(animal) THEN (IF isDog(animal) THEN "cat dog" ELSE "cat")
             ELSE IF isDog(animal) THEN "dog" ELSE "",
             <<>>, animal, "", FALSE, NoDetails, "")

\* isCat(animal) and isDog(animal), called on the i-th record of the store
TypeGuards(i) ==
    /\ req' = Request("isCat isDog", animals[i]["name"].s, NoBody)
    /\ res' = GuardsAnswer(animals[i])
    /\ discarded' = <<>>
    /\ UNCHANGED <<animals, created, input>>

\* resetAnimals(), called by the tests before each test
resetAnimals ==
    /\ animals' = ResetValue
    /\ created' = <<>>
    /\ discarded' = created
    /\ req' = Request("resetAnimals", "", NoBody)
    /\ res' = NoResponse
    /\ UNCHANGED input

(***************************************************************************)
(* Spec: the server from process start, under any sequence of requests and *)
(* resets, each request handled before the next arrives.                   *)
(***************************************************************************)
NoInflight == <<>>
\* the state of the web page, for the specifications without the page
NoUi == <<>>
NoRead == [list |-> NoResponse, name |-> "", byName |-> NoResponse, again |-> FALSE]

Init ==
    /\ animals = InitialAnimals
    /\ created = <<>>
    /\ req = NoRequest
    /\ res = NoResponse
    /\ discarded = <<>>
    /\ input = NoBody
    /\ inflight = NoInflight
    /\ lastRead = NoRead
    /\ ui = NoUi

Next ==
    \/ GetRoot /\ UNCHANGED <<inflight, lastRead, ui>>
    \/ GetAnimals /\ UNCHANGED <<inflight, lastRead, ui>>
    \/ \E name \in Names : GetAnimalByName(name) /\ UNCHANGED <<inflight, lastRead, ui>>
    \/ \E body \in HttpBodies : PostAnimals(body) /\ UNCHANGED <<inflight, lastRead, ui>>
    \/ PostMalformed /\ UNCHANGED <<inflight, lastRead, ui>>
    \/ \E i \in 1..Len(animals) : TypeGuards(i) /\ UNCHANGED <<inflight, lastRead, ui>>
    \/ resetAnimals /\ UNCHANGED <<inflight, lastRead, ui>>

Spec == Init /\ [][Next]_vars

(***************************************************************************)
(* SpecParse: one POST /animals to the server at process start, for every  *)
(* body of the menus.                                                      *)
(***************************************************************************)
InitParse ==
    /\ animals = InitialAnimals
    /\ created = <<>>
    /\ req = NoRequest
    /\ res = NoResponse
    /\ discarded = <<>>
    /\ input \in AllBodies
    /\ inflight = NoInflight
    /\ lastRead = NoRead
    /\ ui = NoUi

NextParse == req = NoRequest /\ PostAnimals(input) /\ UNCHANGED <<inflight, lastRead, ui>>

SpecParse == InitParse /\ [][NextParse]_vars

(***************************************************************************)
(* SpecReads: the server of Spec, with the answer to the last GET /animals *)
(* and to the last GET /animals/:name remembered until a create or a       *)
(* reset changes the store.                                                *)
(***************************************************************************)
\* the bodies of SpecReads: the well-formed ones, and some that are rejected
ReadsBodies ==
    {ObjectBody(Obj(w)) : w \in WellFormed}
    \cup {ObjectBody(Obj([type |-> Str("bird"), name |-> Str("Rex"), age |-> Num(1)])),
          ObjectBody(Obj([type |-> Str("cat"), name |-> Str("Rex")])),
          ArrayBody}

\* GET /animals, its answer remembered
ReadList ==
    /\ GetAnimals
    /\ lastRead' = [lastRead EXCEPT !.list = res',
                                    !.again = lastRead.list # NoResponse]
    /\ UNCHANGED <<inflight, ui>>

\* GET /animals/:name, its answer remembered
ReadByName(name) ==
    /\ GetAnimalByName(name)
    /\ lastRead' = [lastRead EXCEPT !.name = name, !.byName = res',
                                    !.again = (/\ lastRead.byName # NoResponse
                                               /\ lastRead.name = name)]
    /\ UNCHANGED <<inflight, ui>>

\* POST /animals: a create ends the remembered answers, a rejection does not
Write(body) ==
    /\ PostAnimals(body)
    /\ lastRead' = IF res'.status = 201 THEN NoRead
                   ELSE [lastRead EXCEPT !.again = FALSE]
    /\ UNCHANGED <<inflight, ui>>

\* GET /, which leaves the remembered answers
Liveness ==
    /\ GetRoot
    /\ lastRead' = [lastRead EXCEPT !.again = FALSE]
    /\ UNCHANGED <<inflight, ui>>

\* resetAnimals, which ends the remembered answers
Reset ==
    /\ resetAnimals
    /\ lastRead' = NoRead
    /\ UNCHANGED <<inflight, ui>>

NextReads ==
    \/ ReadList
    \/ \E name \in Names : ReadByName(name)
    \/ \E body \in ReadsBodies : Write(body)
    \/ Liveness
    \/ Reset

SpecReads == Init /\ [][NextReads]_vars

(***************************************************************************)
(* SpecConc: as many POST /animals under way at once as the store may      *)
(* take.  express.json() reads each body as its chunks arrive, in any      *)
(* order; the handler of a parsed request then runs to its end, as every   *)
(* handler of index.ts is synchronous.                                     *)
(***************************************************************************)
Requests == 1..MaxCreates

\* the bodies of the requests under way: the well-formed ones
ConcBodies == {ObjectBody(Obj(w)) : w \in WellFormed}

InitConc ==
    /\ animals = InitialAnimals
    /\ created = <<>>
    /\ req = NoRequest
    /\ res = NoResponse
    /\ discarded = <<>>
    /\ input = NoBody
    /\ inflight \in [Requests -> {[pc |-> "sent", body |-> b] : b \in ConcBodies}]
    /\ lastRead = NoRead
    /\ ui = NoUi

\* a body parser that files the body in the store as soon as it is parsed
ParseBody_Push(i) ==
    /\ inflight[i].pc = "sent"
    /\ inflight' = [inflight EXCEPT ![i].pc = "parsed"]
    /\ animals' = Append(animals, inflight[i].body.obj)
    /\ UNCHANGED <<created, req, res, discarded, input, lastRead, ui>>

\* app.use(express.json()): the body of request i has been read and parsed
ParseBody(i) ==
    /\ inflight[i].pc = "sent"
    /\ inflight' = [inflight EXCEPT ![i].pc = "parsed"]
    /\ UNCHANGED <<animals, created, req, res, discarded, input, lastRead, ui>>

\* the handler of the parsed request i runs
Handle(i) ==
    /\ inflight[i].pc = "parsed"
    /\ PostAnimals(inflight[i].body)
    /\ inflight' = [inflight EXCEPT ![i].pc = "done"]
    /\ UNCHANGED <<lastRead, ui>>

\* a GET /animals handled while the creates are under way
ListDuring == GetAnimals /\ UNCHANGED <<inflight, lastRead, ui>>

NextConc ==
    \/ \E i \in Requests : ParseBody(i)
    \/ \E i \in Requests : Handle(i)
    \/ ListDuring

SpecConc == InitConc /\ [][NextConc]_vars

(***************************************************************************)
(* SpecFront: the App component of the web page (part_000) against the     *)
(* API.  The page is mounted, its first fetchAnimals under way; the user   *)
(* edits the form and submits it; every fetch is answered by the API or    *)
(* fails on the way, and its answer reaches the page at any later time.    *)
(* An async function runs to its next await in one step.                   *)
(***************************************************************************)
MaxSubmits == 1

\* the calls of fetchAnimals: the one of useEffect, and one for each submit
FetchIds == 1..(1 + MaxSubmits)

\* useState(null) of error, and the messages of the errors thrown
NoError == "null"
FetchFailed == "Failed to fetch animals"
AddFailed == "Failed to add animal"
NetworkMessage == "Load failed"

\* useState of formData
DefaultForm == [type |-> "cat", name |-> "", age |-> "", livesLeft |-> "", breed |-> ""]

\* what the user puts in each input of the form
FormValues ==
    [type |-> {"cat", "dog"}, name |-> {"", "Rex"}, age |-> {"", "1"},
     livesLeft |-> {"", "9"}, breed |-> {""}]

\* parseInt(text, 10) on the texts of the form: the leading digits, or NaN
parseInt(text) ==
    CASE text = "" -> [nan |-> TRUE, n |-> 0]
      [] text = "1" -> [nan |-> FALSE, n |-> 1]
      [] text = "1.5" -> [nan |-> FALSE, n |-> 1]
      [] text = "9" -> [nan |-> FALSE, n |-> 9]

\* JSON.stringify of a number, read back by express.json(): NaN becomes null
JNull == [t |-> "null", s |-> "", x2 |-> 0]
JsonNumber(p) == IF p.nan THEN JNull ELSE Num(p.n)

\* the object handleSubmit builds from formData, as the API receives it
AnimalOf(formData) ==
    IF formData.type = "cat"
    THEN ObjectBody([type |-> Str("cat"), name |-> Str(formData.name),
                     age |-> JsonNumber(parseInt(formData.age)),
                     livesLeft |-> JsonNumber(parseInt(formData.livesLeft))])
    ELSE ObjectBody([type |-> Str("dog"), name |-> Str(formData.name),
                     age |-> JsonNumber(parseInt(formData.age)),
                     breed |-> Str(formData.breed)])

\* a call of fetchAnimals at its first await, and a call of handleSubmit at its
\* first; the model keeps the animal and the data of a call while it needs them
NewFetch == [pc |-> "sent", outcome |-> "", data |-> <<>>]
NewSubmit(animal) == [pc |-> "posting", animal |-> animal, outcome |-> "", fetch |-> 0]

\* fetchAnimals up to its await: setLoading(true), the GET sent
StartFetch(u) == [u EXCEPT !.loading = TRUE, !.fetches = Append(@, NewFetch)]

\* the page after mount: the states of useState, and useEffect's fetchAnimals
InitFront ==
    /\ animals = InitialAnimals
    /\ created = <<>>
    /\ req = NoRequest
    /\ res = NoResponse
    /\ discarded = <<>>
    /\ input = NoBody
    /\ inflight = NoInflight
    /\ lastRead = NoRead
    /\ ui = StartFetch([animals |-> <<>>, loading |-> TRUE, error |-> NoError,
                        formData |-> DefaultForm, fetches |-> <<>>, submits |-> <<>>])

\* a handleSubmit whose fetchAnimals has returned: its continuation runs
\* before any other event
Resuming(s) ==
    /\ s \in DOMAIN ui.submits
    /\ ui.submits[s].pc = "refetching"
    /\ ui.fetches[ui.submits[s].fetch].pc = "done"
Idle == \A s \in DOMAIN ui.submits : ~Resuming(s)

\* handleInputChange: setFormData((prev) => ({ ...prev, [name]: value }))
handleInputChange(name, value) ==
    /\ Idle
    /\ ui.formData[name] # value
    /\ ui' = [ui EXCEPT !.formData[name] = value]
    /\ UNCHANGED <<animals, created, req, res, discarded, input, inflight, lastRead>>

\* handleSubmit up to its await: the animal built from formData, the POST sent
handleSubmit ==
    /\ Idle
    /\ Len(ui.submits) < MaxSubmits
    /\ ui' = [ui EXCEPT !.submits = Append(@, NewSubmit(AnimalOf(ui.formData)))]
    /\ UNCHANGED <<animals, created, req, res, discarded, input, inflight, lastRead>>

\* the API handles the POST of submit s
ServePost(s) ==
    /\ Idle
    /\ s \in DOMAIN ui.submits
    /\ ui.submits[s].pc = "posting"
    /\ PostAnimals(ui.submits[s].animal)
    /\ ui' = [ui EXCEPT !.submits[s].pc = "answered", !.submits[s].animal = NoBody,
                        !.submits[s].outcome =
                            IF res'.status >= 200 /\ res'.status <= 299
                            THEN "ok" ELSE "non-ok"]
    /\ UNCHANGED <<inflight, lastRead>>

\* the POST of submit s fails before the API: a non-ok answer, or fetch throws
FailPost(s, kind) ==
    /\ Idle
    /\ s \in DOMAIN ui.submits
    /\ ui.submits[s].pc = "posting"
    /\ ui' = [ui EXCEPT !.submits[s].pc = "answered", !.submits[s].animal = NoBody,
                        !.submits[s].outcome = kind]
    /\ UNCHANGED <<animals, created, req, res, discarded, input, inflight, lastRead>>

\* a catch that also puts the form back to its defaults
SubmitCatch_Reset(u, s) ==
    [u EXCEPT !.submits[s].pc = "failed", !.formData = DefaultForm,
              !.error = IF u.submits[s].outcome = "non-ok"
                        THEN AddFailed ELSE NetworkMessage]

\* the catch of handleSubmit: setError(err.message)
SubmitCatch(u, s) ==
    [u EXCEPT !.submits[s].pc = "failed",
              !.error = IF u.submits[s].outcome = "non-ok"
                        THEN AddFailed ELSE NetworkMessage]

\* handleSubmit after its await fetch: the throw and the catch, or the call of
\* fetchAnimals up to its await
SubmitResume(s) ==
    /\ Idle
    /\ s \in DOMAIN ui.submits
    /\ ui.submits[s].pc = "answered"
    /\ ui' = IF ui.submits[s].outcome = "ok"
             THEN [StartFetch(ui) EXCEPT !.submits[s].pc = "refetching",
                                         !.submits[s].fetch = Len(ui.fetches) + 1]
             ELSE SubmitCatch(ui, s)
    /\ UNCHANGED <<animals, created, req, res, discarded, input, inflight, lastRead>>

\* handleSubmit after await fetchAnimals(): the form reset, the error cleared
SubmitFinish(s) ==
    /\ Resuming(s)
    /\ ui' = [ui EXCEPT !.submits[s].pc = "done", !.formData = DefaultForm,
                        !.error = NoError]
    /\ UNCHANGED <<animals, created, req, res, discarded, input, inflight, lastRead>>

\* the API handles the GET of fetch f
ServeFetch(f) ==
    /\ Idle
    /\ f \in DOMAIN ui.fetches
    /\ ui.fetches[f].pc = "sent"
    /\ GetAnimals
    /\ ui' = [ui EXCEPT !.fetches[f].pc = "served", !.fetches[f].outcome = "ok",
                        !.fetches[f].data = res'.list]
    /\ UNCHANGED <<inflight, lastRead>>

\* the GET of fetch f fails before the API: a non-ok answer, or fetch throws
FailFetch(f, kind) ==
    /\ Idle
    /\ f \in DOMAIN ui.fetches
    /\ ui.fetches[f].pc = "sent"
    /\ ui' = [ui EXCEPT !.fetches[f].pc = "served", !.fetches[f].outcome = kind]
    /\ UNCHANGED <<animals, created, req, res, discarded, input, inflight, lastRead>>

\* fetchAnimals without its finally
FetchFinally_None(u) == u

\* the finally of fetchAnimals: setLoading(false)
FetchFinally(u) == [u EXCEPT !.loading = FALSE]

\* fetchAnimals after its awaits: setAnimals(data) and setError(null), or the
\* throw and the catch with setError(err.message); then the finally
FetchResume(f) ==
    /\ Idle
    /\ f \in DOMAIN ui.fetches
    /\ ui.fetches[f].pc = "served"
    /\ ui' = FetchFinally(
                IF ui.fetches[f].outcome = "ok"
                THEN [ui EXCEPT !.fetches[f].pc = "done", !.fetches[f].data = <<>>,
                                !.animals = ui.fetches[f].data, !.error = NoError]
                ELSE [ui EXCEPT !.fetches[f].pc = "done",
                                !.error = IF ui.fetches[f].outcome = "non-ok"
                                          THEN FetchFailed ELSE NetworkMessage])
    /\ UNCHANGED <<animals, created, req, res, discarded, input, inflight, lastRead>>

Failures == {"non-ok", "throws"}

\* the answer to the GET of fetch f, whichever it is
Settle(f) == ServeFetch(f) \/ \E kind \in Failures : FailFetch(f, kind)

NextFront ==
    \/ \E name \in DOMAIN FormValues : \E value \in FormValues[name] :
          handleInputChange(name, value)
    \/ handleSubmit
    \/ \E s \in 1..MaxSubmits : ServePost(s)
    \/ \E s \in 1..MaxSubmits : \E kind \in Failures : FailPost(s, kind)
    \/ \E s \in 1..MaxSubmits : SubmitResume(s)
    \/ \E s \in 1..MaxSubmits : SubmitFinish(s)
    \/ \E f \in FetchIds : ServeFetch(f)
    \/ \E f \in FetchIds : \E kind \in Failures : FailFetch(f, kind)
    \/ \E f \in FetchIds : FetchResume(f)

SpecFront == InitFront /\ [][NextFront]_vars

\* every fetch is answered or fails, and every continuation that can run does
FairFront ==
    /\ \A f \in FetchIds : WF_vars(Settle(f)) /\ WF_vars(FetchResume(f))
    /\ \A s \in 1..MaxSubmits : WF_vars(SubmitFinish(s))

(***************************************************************************)
(* SpecFetch: the calls of fetchAnimals under the fairness above.  The     *)
(* form holds from the start what the user submits, filled in or left      *)
(* empty, and is not edited further.                                       *)
(***************************************************************************)
FilledForm == [DefaultForm EXCEPT !.name = "Rex", !.age = "1", !.livesLeft = "9"]

InitFetch ==
    /\ animals = InitialAnimals
    /\ created = <<>>
    /\ req = NoRequest
    /\ res = NoResponse
    /\ discarded = <<>>
    /\ input = NoBody
    /\ inflight = NoInflight
    /\ lastRead = NoRead
    /\ \E formData \in {DefaultForm, FilledForm} :
          ui = StartFetch([animals |-> <<>>, loading |-> TRUE, error |-> NoError,
                           formData |-> formData, fetches |-> <<>>, submits |-> <<>>])

NextFetch ==
    \/ handleSubmit
    \/ \E s \in 1..MaxSubmits : ServePost(s)
    \/ \E s \in 1..MaxSubmits : \E kind \in Failures : FailPost(s, kind)
    \/ \E s \in 1..MaxSubmits : SubmitResume(s)
    \/ \E s \in 1..MaxSubmits : SubmitFinish(s)
    \/ \E f \in FetchIds : ServeFetch(f)
    \/ \E f \in FetchIds : \E kind \in Failures : FailFetch(f, kind)
    \/ \E f \in FetchIds : FetchResume(f)

SpecFetch == InitFetch /\ [][NextFetch]_vars /\ FairFront

(***************************************************************************)
(* The data model of the specification, for the claims below.              *)
(***************************************************************************)
IsNonEmptyString(v) == v.t = "string" /\ v.s # ""
IsInteger(v) == v.t = "number" /\ v.x2 % 2 = 0
IsPositiveInteger(v) == IsInteger(v) /\ v.x2 >= 2
IsIntegerIn(v, lo, hi) == IsInteger(v) /\ 2 * lo <= v.x2 /\ v.x2 <= 2 * hi

\* the field rules of a Cat and of a Dog
CatRules(o) ==
    /\ IsNonEmptyString(Get(o, "name"))
    /\ IsPositiveInteger(Get(o, "age"))
    /\ IsIntegerIn(Get(o, "livesLeft"), 0, 9)
DogRules(o) ==
    /\ IsNonEmptyString(Get(o, "name"))
    /\ IsPositiveInteger(Get(o, "age"))
    /\ IsNonEmptyString(Get(o, "breed"))

\* a valid Cat or Dog input: the tag, the four keys of the variant and no
\* other, each within its rule
IsCatInput(body) ==
    /\ body.kind = "object"
    /\ DOMAIN body.obj = {"type", "name", "age", "livesLeft"}
    /\ body.obj["type"] = Str("cat")
    /\ CatRules(body.obj)
IsDogInput(body) ==
    /\ body.kind = "object"
    /\ DOMAIN body.obj = {"type", "name", "age", "breed"}
    /\ body.obj["type"] = Str("dog")
    /\ DogRules(body.obj)
IsAnimalInput(body) == IsCatInput(body) \/ IsDogInput(body)

\* some record of the list carries the name
HasName(list, name) == \E i \in 1..Len(list) : Get(list[i], "name") = Str(name)

\* the list without its last record
Front(list) == SubSeq(list, 1, Len(list) - 1)

(***************************************************************************)
(* C1.  Round trip.  The claim: for any valid Cat or Dog input submitted   *)
(* via POST /animals, in any store state, a GET /animals/<name> that       *)
(* follows for the input's name returns 200 with an object deep-equal to   *)
(* the input, no extra fields.                                             *)
(***************************************************************************)
\* the step from a POST /animals of a valid input to the GET of its name
RoundTripStep ==
    /\ req.route = "POST /animals"
    /\ IsAnimalInput(req.body)
    /\ req'.route = "GET /animals/:name"
    /\ req'.name = req.body.obj["name"].s

\* the GET answers 200 with exactly the input of the POST, which was created
RoundTripAnswer ==
    /\ res.status = 201
    /\ res'.status = 200
    /\ res'.type = "json-object"
    /\ res'.obj = req.body.obj

\* C1 as claimed: violated when the store already held a record of that name
C1_RoundTripAnyStore == [][RoundTripStep => RoundTripAnswer]_vars

\* C1 amended: the round trip holds for every valid input whose name no
\* record of the store carried before the create
C1_RoundTripFreshName ==
    [][(RoundTripStep /\ ~HasName(Front(animals), req.body.obj["name"].s))
        => RoundTripAnswer]_vars

\* a GET by name has just returned the record the last create added
C1_Witness ==
    /\ req.route = "GET /animals/:name"
    /\ res.status = 200
    /\ created # <<>>
    /\ res.obj = created[Len(created)]
    /\ ~HasName(Front(animals), req.name)

(***************************************************************************)
(* C2.  A POST /animals whose body passes validation responds 201 with an  *)
(* empty body and the Location /animals/<name> of the validated record,    *)
(* and appends exactly that record at the end of the store, the earlier    *)
(* records staying in place.                                               *)
(***************************************************************************)
C2_CreateAppends ==
    [][(req'.route = "POST /animals" /\ AnimalSchema(req'.body).success)
        => LET validated == AnimalSchema(req'.body).data
           IN  /\ res'.status = 201
               /\ res'.type = "empty"
               /\ res'.location = "/animals/" \o validated["name"].s
               /\ Len(animals') = Len(animals) + 1
               /\ animals'[Len(animals')] = validated
               /\ Front(animals') = animals]_vars

\* a second create has succeeded, on top of the seed and of the first create
C2_Witness ==
    /\ req.route = "POST /animals"
    /\ res.status = 201
    /\ res.location = "/animals/Rex"
    /\ Len(animals) = 4

(***************************************************************************)
(* C3.  A POST /animals whose body fails validation responds 400 with the  *)
(* error "Invalid animal data" and a defined details member, and leaves    *)
(* the store exactly as it was.  (A body that is not JSON never reaches    *)
(* validation: C14.)                                                       *)
(***************************************************************************)
C3_RejectLeavesStore ==
    [][(/\ req'.route = "POST /animals"
        /\ req'.body # MalformedBody
        /\ ~AnimalSchema(req'.body).success)
        => /\ res'.status = 400
           /\ res'.type = "json-error"
           /\ res'.error = "Invalid animal data"
           /\ res'.hasDetails
           /\ animals' = animals]_vars

\* a rejected create, of a cat with an empty name, on a store that holds
\* created records
C3_Witness ==
    /\ req.route = "POST /animals"
    /\ Get(req.body.obj, "name") = Str("")
    /\ res.status = 400
    /\ res.error = "Invalid animal data"
    /\ Len(animals) > 2

(***************************************************************************)
(* C4.  For an input whose type is "cat", validation succeeds if and only  *)
(* if name is a non-empty string, age an integer greater than 0 and        *)
(* livesLeft an integer from 0 to 9: livesLeft 0 and 9 are accepted, -1    *)
(* and 10 rejected.  Checked on the answer to every body of AllBodies.     *)
(***************************************************************************)
\* the request handled is a POST /animals of an object tagged `tag`
PostedTagged(tag) ==
    /\ req.route = "POST /animals"
    /\ req.body.kind = "object"
    /\ Get(req.body.obj, "type") = Str(tag)

\* the answer of POST /animals: created, or rejected
Accepted == res.status = 201 /\ animals # InitialAnimals
Rejected == res.status = 400 /\ animals = InitialAnimals

C5_DogValidation ==
    PostedTagged("dog") =>
        /\ Accepted \/ Rejected
        /\ Accepted <=> DogRules(req.body.obj)
        /\ Get(req.body.obj, "age") \in {Num(0), Num(-1)} => Rejected
        /\ (/\ IsNonEmptyString(Get(req.body.obj, "name"))
            /\ IsNonEmptyString(Get(req.body.obj, "breed"))
            /\ Get(req.body.obj, "age") = Num(1))
           => Accepted

\* a dog of age 0, its name and breed in order, has been rejected
C5_Witness ==
    /\ PostedTagged("dog")
    /\ Get(req.body.obj, "age") = Num(0)
    /\ IsNonEmptyString(Get(req.body.obj, "name"))
    /\ IsNonEmptyString(Get(req.body.obj, "breed"))
    /\ Rejected

(***************************************************************************)
(* C6.  An input whose type is not exactly "cat" or "dog" (absent, not a   *)
(* string, another string) is rejected with 400 whatever its other fields  *)
(* hold, also when they would form a valid Cat or Dog.                     *)
(***************************************************************************)
C6_UnknownTypeRejected ==
    (/\ req.route = "POST /animals"
     /\ Get(req.body.obj, "type") \notin {Str("cat"), Str("dog")})
    => /\ Rejected
       /\ res.error = "Invalid animal data"

\* a bird whose other fields form a valid cat has been rejected
C6_Witness ==
    /\ PostedTagged("bird")
    /\ CatRules(req.body.obj)
    /\ Rejected

(***************************************************************************)
(* The seed records, as the specification states them.                     *)
(***************************************************************************)
SeedCat ==
    [type |-> Str("cat"), name |-> Str("Whiskers"), age |-> Num(3),
     livesLeft |-> Num(7)]
SeedDog ==
    [type |-> Str("dog"), name |-> Str("Buddy"), age |-> Num(5),
     breed |-> Str("Labrador")]
Seed == <<SeedCat, SeedDog>>

(***************************************************************************)
(* C7.  GET /animals returns, in every reachable state, all records of the *)
(* store in insertion order: the two seed records, then every record       *)
(* created (since the last reset) in the order of the creates, nothing     *)
(* filtered, sorted or omitted.                                            *)
(***************************************************************************)
C7_ListInInsertionOrder ==
    req.route = "GET /animals" =>
        /\ res.status = 200
        /\ res.type = "json-array"
        /\ res.list = Seed \o created
        /\ res.list = animals

\* the list has been returned with two different created records in it
C7_Witness ==
    /\ req.route = "GET /animals"
    /\ Len(created) = 2
    /\ created[1] # created[2]
    /\ res.list = Seed \o created

(***************************************************************************)
(* C8.  GET /animals/:name responds 200 with a stored record if and only   *)
(* if some record of the store has exactly the requested name (case and    *)
(* spaces count); otherwise 404 with the body {"error":"Animal not found"}.*)
(***************************************************************************)
C8_GetByName ==
    req.route = "GET /animals/:name" =>
        IF \E i \in 1..Len(animals) : animals[i]["name"] = Str(req.name)
        THEN /\ res.status = 200
             /\ res.type = "json-object"
             /\ \E i \in 1..Len(animals) : res.obj = animals[i]
             /\ res.obj["name"] = Str(req.name)
        ELSE /\ res.status = 404
             /\ res.type = "json-error"
             /\ res.error = "Animal not found"
             /\ ~res.hasDetails

\* "Buddy " with a trailing space has been answered 404 while Buddy is stored
C8_Witness ==
    /\ req.route = "GET /animals/:name"
    /\ req.name = "Buddy "
    /\ HasName(animals, "Buddy")
    /\ res.status = 404
    /\ res.error = "Animal not found"

(***************************************************************************)
(* C9.  Creating a record whose name the store already holds succeeds      *)
(* (201, the record appended, no check of the name), and from then on      *)
(* GET /animals/:name for that name returns the first, oldest record of    *)
(* that name, never the newer one.                                         *)
(***************************************************************************)
\* the first record of the list that carries the name
Oldest(list, name) ==
    list[CHOOSE i \in 1..Len(list) :
            /\ list[i]["name"] = Str(name)
            /\ \A j \in 1..(i - 1) : list[j]["name"] # Str(name)]

C9_DuplicateName ==
    [][/\ (/\ req'.route = "POST /animals"
           /\ IsAnimalInput(req'.body)
           /\ HasName(animals, req'.body.obj["name"].s))
          => /\ res'.status = 201
             /\ animals' = Append(animals, req'.body.obj)
       /\ (/\ req'.route = "GET /animals/:name"
           /\ HasName(animals', req'.name))
          => /\ res'.status = 200
             /\ res'.obj = Oldest(animals', req'.name)]_vars

\* Buddy has been asked for while the store holds the seed dog Buddy and a
\* created, different Buddy: the seed dog is the answer
C9_Witness ==
    /\ req.route = "GET /animals/:name"
    /\ req.name = "Buddy"
    /\ \E i \in 3..Len(animals) :
          animals[i]["name"] = Str("Buddy") /\ animals[i] # res.obj
    /\ res.obj = SeedDog

(***************************************************************************)
(* C10.  After resetAnimals(), whatever creates and resets came before,    *)
(* GET /animals returns exactly two records, Cat Whiskers (age 3,          *)
(* livesLeft 7) then Dog Buddy (age 5, breed Labrador): every record       *)
(* created before is gone.                                                 *)
(***************************************************************************)
C10_ResetToSeed ==
    [][/\ req'.route = "resetAnimals" => animals' = Seed
       /\ (req.route = "resetAnimals" /\ req'.route = "GET /animals")
          => /\ res'.status = 200
             /\ res'.list = Seed]_vars

\* a reset has just dropped created records, and the store is the seed
C10_Witness ==
    /\ req.route = "resetAnimals"
    /\ discarded # <<>>
    /\ animals = Seed

(***************************************************************************)
(* C11.  Concurrent creates lose nothing: for any interleaving of N POST   *)
(* /animals with valid bodies, the final store holds the prior records     *)
(* followed by all N new records, each once and unmodified; only the       *)
(* order of the N new records depends on the interleaving.                 *)
(***************************************************************************)
AllDone == \A i \in Requests : inflight[i].pc = "done"

\* the one-to-one assignments of the requests to the places after the seed
Placements ==
    {p \in [Requests -> Requests] : \A i, j \in Requests : p[i] = p[j] => i = j}

C11_ConcurrentCreatesKeepAll ==
    /\ Len(animals) = 2 + Cardinality({i \in Requests : inflight[i].pc = "done"})
    /\ SubSeq(animals, 1, 2) = InitialAnimals
    /\ AllDone =>
          \E p \in Placements :
              \A i \in Requests : animals[2 + p[i]] = inflight[i].body.obj

\* all requests are done and the record of the second request sits before
\* the different record of the first
C11_Witness ==
    /\ AllDone
    /\ animals[3] = inflight[2].body.obj
    /\ animals[4] = inflight[1].body.obj
    /\ animals[3] # animals[4]

(***************************************************************************)
(* C12.  GET /animals and GET /animals/:name never modify the store: in    *)
(* every reachable state and for every requested name, hit or miss, the    *)
(* store after the request equals the store before it.                     *)
(***************************************************************************)
C12_ReadsLeaveStore ==
    [][req'.route \in {"GET /animals", "GET /animals/:name"}
        => animals' = animals]_vars

\* a lookup has hit a created record, and the store still holds all four
C12_Witness ==
    /\ req.route = "GET /animals/:name"
    /\ res.status = 200
    /\ Len(animals) = 4
    /\ res.obj = animals[4]

(***************************************************************************)
(* C13.  Idempotent reads: two GET /animals, or two GET /animals/:name for *)
(* the same name, with no create between them (nor a resetAnimals, which   *)
(* is no request), return the same status and body, whatever other         *)
(* requests came between.                                                  *)
(***************************************************************************)
C13_IdempotentReads ==
    [][/\ (req'.route = "GET /animals" /\ lastRead.list # NoResponse)
          => res' = lastRead.list
       /\ (/\ req'.route = "GET /animals/:name"
           /\ lastRead.byName # NoResponse
           /\ lastRead.name = req'.name)
          => res' = lastRead.byName]_vars

\* a created Rex has been looked up a second time, with the answer to a
\* GET /animals remembered as well
C13_Witness ==
    /\ lastRead.again
    /\ req.route = "GET /animals/:name"
    /\ req.name = "Rex"
    /\ res.status = 200
    /\ lastRead.list # NoResponse

(***************************************************************************)
(* C14.  Every failure response of the API is a well-formed JSON object    *)
(* with a string error field, "Animal not found" for 404 and "Invalid      *)
(* animal data" for 400, and nothing reaches a generic error page: for     *)
(* every request to the four routes, also a POST /animals whose body the   *)
(* body parser cannot parse as JSON.                                       *)
(***************************************************************************)
C14_FailuresAreJson ==
    res.status >= 400 =>
        /\ res.type = "json-error"
        /\ \/ res.status = 404 /\ res.error = "Animal not found"
           \/ res.status = 400 /\ res.error = "Invalid animal data"

(***************************************************************************)
(* C15.  Validation is total: for every parsed request body (object,       *)
(* array, string, number, null, absent) the validator returns a success    *)
(* value or an error report and throws nothing, so that the create         *)
(* handler always reaches its 201 branch or its 400 branch.                *)
(***************************************************************************)
C15_ValidationTotal ==
    req.route = "POST /animals" =>
        /\ ~AnimalSchema(req.body).threw
        /\ IF AnimalSchema(req.body).success
           THEN res.status = 201 /\ res.type = "empty"
           ELSE /\ res.status = 400
                /\ res.type = "json-error"
                /\ res.details = treeifyError(AnimalSchema(req.body).issues)

\* a null body has been answered by the 400 branch
C15_Witness ==
    /\ req.route = "POST /animals"
    /\ req.body.kind = "null"
    /\ res.status = 400
    /\ res.type = "json-error"

(***************************************************************************)
(* C16.  GET / responds 200 with the plain text "Hello, World!" in every   *)
(* state of the store; it neither reads nor modifies the store.            *)
(***************************************************************************)
C16_Liveness ==
    [][req'.route = "GET /"
        => /\ res' = SendText(200, "Hello, World!")
           /\ animals' = animals]_vars

\* GET / has been answered on a store that holds two created records
C16_Witness ==
    /\ req.route = "GET /"
    /\ res.status = 200
    /\ res.text = "Hello, World!"
    /\ Len(animals) = 4

(***************************************************************************)
(* C17.  The claim, after the README: livesLeft ranges from 1 to 9.  POST  *)
(* /animals accepts a cat only when 1 <= livesLeft <= 9, and every stored  *)
(* Cat has livesLeft in 1..9.                                              *)
(***************************************************************************)
\* every cat of the store has its livesLeft an integer from lo to hi
StoredCatsWithin(lo, hi) ==
    \A i \in 1..Len(animals) :
        Get(animals[i], "type") = Str("cat")
            => IsIntegerIn(Get(animals[i], "livesLeft"), lo, hi)

C18_AppendOnly ==
    [][req'.route # "resetAnimals"
        => /\ Len(animals) <= Len(animals')
           /\ SubSeq(animals', 1, Len(animals)) = animals]_vars

\* a record named Buddy has been appended behind the seed dog Buddy and
\* another record, all three in place
C18_Witness ==
    /\ req.route = "POST /animals"
    /\ res.status = 201
    /\ Len(animals) = 4
    /\ animals[4]["name"] = Str("Buddy")
    /\ animals[4] # animals[2]
    /\ animals[3] = created[1]
    /\ SubSeq(animals, 1, 2) = InitialAnimals

(***************************************************************************)
(* C19.  Every record of the store satisfies the schema of its variant, in *)
(* every reachable state: a cat its three field rules, a dog its three.    *)
(***************************************************************************)
C19_StoredRecordsValid ==
    \A i \in 1..Len(animals) :
        \/ Get(animals[i], "type") = Str("cat") /\ CatRules(animals[i])
        \/ Get(animals[i], "type") = Str("dog") /\ DogRules(animals[i])

\* the store holds a created cat and a created dog, after rejected creates
C19_Witness ==
    /\ req.route = "POST /animals"
    /\ res.status = 400
    /\ Len(animals) = 4
    /\ \E i, j \in 3..4 : /\ animals[i]["type"] = Str("cat")
                         /\ animals[j]["type"] = Str("dog")

(***************************************************************************)
(* C20.  For every stored record exactly one of isCat and isDog is true;   *)
(* isCat holds iff the record carries livesLeft and no breed, isDog iff it *)
(* carries breed and no livesLeft; and a call of the guards leaves the     *)
(* record and the store unchanged.                                         *)
(***************************************************************************)
\* the guards tell the two shapes apart on the record
GuardsMatchShape(animal) ==
    /\ isCat(animal) # isDog(animal)
    /\ isCat(animal) <=> ("livesLeft" \in DOMAIN animal /\ "breed" \notin DOMAIN animal)
    /\ isDog(animal) <=> ("breed" \in DOMAIN animal /\ "livesLeft" \notin DOMAIN animal)

C20_TypeGuards ==
    /\ [](\A i \in 1..Len(animals) : GuardsMatchShape(animals[i]))
    /\ [][req'.route = "isCat isDog"
           => /\ animals' = animals
              /\ \E i \in 1..Len(animals) :
                    /\ res'.obj = animals[i]
                    /\ res'.text = (IF isCat(animals[i]) THEN "cat" ELSE "dog")]_vars

\* the guards have told a created cat from the dogs
C20_Witness ==
    /\ req.route = "isCat isDog"
    /\ res.text = "cat"
    /\ Len(animals) = 4
    /\ res.obj = animals[4]

(***************************************************************************)
(* C21.  The stored record holds exactly the four fields of its variant:   *)
(* a POST /animals body that is valid for its type and carries further     *)
(* fields (a cat with a breed, an unknown key) is accepted, and the extra  *)
(* fields are absent from the stored record and from the GET responses.    *)
(***************************************************************************)
\* the four keys of the variant the record is tagged with
VariantKeys(animal) == IF Get(animal, "type") = Str("cat") THEN CatKeys ELSE DogKeys

\* the record carries exactly the keys of its variant
HasVariantKeys(animal) == DOMAIN animal = VariantKeys(animal)

\* the body is an object that meets the rules of the variant of its tag
MeetsRules(body) ==
    /\ body.kind = "object"
    /\ \/ Get(body.obj, "type") = Str("cat") /\ CatRules(body.obj)
       \/ Get(body.obj, "type") = Str("dog") /\ DogRules(body.obj)

C21_ExtraFieldsStripped ==
    /\ [](\A i \in 1..Len(animals) : HasVariantKeys(animals[i]))
    /\ []((req.route = "GET /animals/:name" /\ res.status = 200)
            => HasVariantKeys(res.obj))
    /\ [](req.route = "GET /animals"
            => \A i \in 1..Len(res.list) : HasVariantKeys(res.list[i]))
    /\ [][(req'.route = "POST /animals" /\ MeetsRules(req'.body))
            => /\ res'.status = 201
               /\ animals' = Append(animals,
                      [k \in VariantKeys(req'.body.obj) |-> req'.body.obj[k]])]_vars

\* a cat sent with a breed has been accepted and stored without it
C21_Witness ==
    /\ PostedTagged("cat")
    /\ Get(req.body.obj, "breed") = Str("Pug")
    /\ res.status = 201
    /\ DOMAIN animals[Len(animals)] = CatKeys
    /\ animals[Len(animals)]["name"] = req.body.obj["name"]

(***************************************************************************)
(* C22.  When the type of an input is not "cat" or "dog", validation fails *)
(* as "no matching variant" without field-level checks: the error report   *)
(* holds no violation for name, age, livesLeft or breed, also when those   *)
(* fields are missing or invalid.                                          *)
(***************************************************************************)
C22_UnknownTypeNoFieldChecks ==
    (/\ req.route = "POST /animals"
     /\ req.body.kind = "object"
     /\ Get(req.body.obj, "type") \notin {Str("cat"), Str("dog")})
    => /\ res.status = 400
       /\ res.hasDetails
       /\ res.details.errors = <<>>
       /\ DOMAIN res.details.properties = {"type"}

\* a bird with no name and an age of the wrong type has been refused for its
\* type alone
C22_Witness ==
    /\ PostedTagged("bird")
    /\ "name" \notin DOMAIN req.body.obj
    /\ Get(req.body.obj, "age") = Str("1")
    /\ res.status = 400
    /\ DOMAIN res.details.properties = {"type"}

(***************************************************************************)
(* C23.  For an input with a recognised type, the details of the 400       *)
(* response name exactly the fields that violate a rule: a field is in the *)
(* error tree if and only if it is missing, of the wrong type or out of    *)
(* range, and all violating fields are reported together.                  *)
(***************************************************************************)
\* the fields of the object that break the rule of the variant tagged
Violating(o) ==
    {k \in {"name"} : ~IsNonEmptyString(Get(o, k))}
    \cup {k \in {"age"} : ~IsPositiveInteger(Get(o, k))}
    \cup IF Get(o, "type") = Str("cat")
         THEN {k \in {"livesLeft"} : ~IsIntegerIn(Get(o, k), 0, 9)}
         ELSE {k \in {"breed"} : ~IsNonEmptyString(Get(o, k))}

C23_DetailsNameViolations ==
    (PostedTagged("cat") \/ PostedTagged("dog")) =>
        /\ Violating(req.body.obj) # {} => res.status = 400
        /\ res.status = 400
            => /\ res.hasDetails
               /\ res.details.errors = <<>>
               /\ DOMAIN res.details.properties = Violating(req.body.obj)
               /\ \A k \in Violating(req.body.obj) :
                     res.details.properties[k].errors # <<>>

\* a cat whose three fields are all wrong has been refused with all three
\* named
C23_Witness ==
    /\ PostedTagged("cat")
    /\ res.status = 400
    /\ DOMAIN res.details.properties = {"name", "age", "livesLeft"}

(***************************************************************************)
(* C24.  The store at process start equals the store resetAnimals()        *)
(* produces, the two seed records in the same order: a reset before any    *)
(* create changes nothing that can be observed, and a reset after a reset  *)
(* changes nothing.                                                        *)
(***************************************************************************)
C24_ResetIsInitial ==
    /\ [](created = <<>> => animals = ResetValue)
    /\ [][req'.route = "resetAnimals"
           => /\ animals' = ResetValue
              /\ created = <<>> => animals' = animals
              /\ req.route = "resetAnimals" => animals' = animals]_vars

\* a reset that had nothing to drop has left the store of process start
C24_Witness ==
    /\ req.route = "resetAnimals"
    /\ discarded = <<>>
    /\ created = <<>>
    /\ animals = InitialAnimals

(***************************************************************************)
(* C25.  Every GET /animals response issued while creates are in progress  *)
(* equals the whole store at one instant between request and response: it  *)
(* holds no partly built or unvalidated record, and a record is never      *)
(* visible without all the records appended before it.                     *)
(***************************************************************************)
\* the requests whose handler has run
Handled == {i \in Requests : inflight[i].pc = "done"}

C25_ListIsSnapshot ==
    req.route = "GET /animals" =>
        /\ res.list = animals
        /\ res.list = InitialAnimals \o created
        /\ Len(res.list) = 2 + Cardinality(Handled)
        /\ \A k \in 3..Len(res.list) :
              /\ MeetsRules(ObjectBody(res.list[k]))
              /\ HasVariantKeys(res.list[k])
              /\ \E i \in Handled : res.list[k] = AnimalSchema(inflight[i].body).data

\* the list has been returned between two creates: one record appended, the
\* other request parsed and not yet handled
C25_Witness ==
    /\ req.route = "GET /animals"
    /\ Len(res.list) = 3
    /\ Cardinality(Handled) = 1
    /\ \E i \in Requests : inflight[i].pc = "parsed"

(***************************************************************************)
(* C26.  Every request to one of the four routes ends with exactly one     *)
(* response: each handler sends on every branch and never twice; the 400   *)
(* branch of the create handler returns before the append and the 201.     *)
(***************************************************************************)
Routes == {"GET /", "GET /animals", "GET /animals/:name", "POST /animals"}

C26_ExactlyOneResponse ==
    /\ [][req'.route \in Routes
           => /\ res'.sends = 1
              /\ res'.status \in {200, 201, 400, 404}
              /\ res'.status = 400 => animals' = animals]_vars
    /\ [](/\ ENABLED (GetRoot /\ UNCHANGED <<inflight, lastRead, ui>>)
          /\ ENABLED (GetAnimals /\ UNCHANGED <<inflight, lastRead, ui>>)
          /\ \A name \in Names :
                ENABLED (GetAnimalByName(name) /\ UNCHANGED <<inflight, lastRead, ui>>)
          /\ \A body \in ReadsBodies :
                (Len(created) < MaxCreates \/ ~AnimalSchema(body).success)
                    => ENABLED (PostAnimals(body) /\ UNCHANGED <<inflight, lastRead, ui>>))

\* a lookup of an unknown name has been answered once, with 404
C26_Witness ==
    /\ req.route = "GET /animals/:name"
    /\ req.name = "NonExistent"
    /\ res.status = 404
    /\ res.sends = 1
    /\ Len(animals) = 3

(***************************************************************************)
(* C27.  Web page: after a submit whose POST succeeded, once every list    *)
(* fetch under way has completed, the list displayed equals the list of    *)
(* the server at that time and so holds the animal submitted, for every    *)
(* interleaving of the fetchAnimals of the mount with the one handleSubmit *)
(* starts: a late answer to the earlier fetch does not replace the newer   *)
(* list.                                                                   *)
(***************************************************************************)
\* no call of the page is under way: every submit has ended, every fetch has
\* delivered a list
AllSettled ==
    /\ \A s \in DOMAIN ui.submits : ui.submits[s].pc \in {"done", "failed"}
    /\ \A f \in DOMAIN ui.fetches :
          ui.fetches[f].pc = "done" /\ ui.fetches[f].outcome = "ok"

\* C27 as claimed: violated when the answer to the fetch of the mount, taken
\* before the create, arrives after the answer to the fetch of the submit
C27_DisplayedListCurrent ==
    (AllSettled /\ \E s \in DOMAIN ui.submits : ui.submits[s].pc = "done")
        => /\ ui.animals = animals
           /\ \A k \in 1..Len(created) :
                 \E n \in 1..Len(ui.animals) : ui.animals[n] = created[k]

(***************************************************************************)
(* C28.  Web page: every call of fetchAnimals comes to set loading to      *)
(* false, whether the request succeeds, is answered non-ok or throws; on   *)
(* success error is cleared and animals replaced, on failure error is set  *)
(* and animals keeps its value.                                            *)
(***************************************************************************)
\* the step in which call f of fetchAnimals runs from its await to its end
FetchEnds(f) ==
    /\ f \in DOMAIN ui.fetches
    /\ ui.fetches[f].pc = "served"
    /\ ui'.fetches[f].pc = "done"

\* call f of fetchAnimals has been made; it has run to its end
FetchCalled(f) == f \in DOMAIN ui.fetches
FetchDone(f) == f \in DOMAIN ui.fetches /\ ui.fetches[f].pc = "done"

C28_FetchSettlesLoading ==
    /\ \A f \in FetchIds : FetchCalled(f) ~> FetchDone(f)
    /\ [][\A f \in FetchIds :
            FetchEnds(f)
              => /\ ui'.loading = FALSE
                 /\ IF ui.fetches[f].outcome = "ok"
                    THEN /\ ui'.error = NoError
                         /\ ui'.animals = ui.fetches[f].data
                    ELSE /\ ui'.error \in {FetchFailed, NetworkMessage}
                         /\ ui'.animals = ui.animals]_vars

\* a fetch has thrown after another had delivered the list: the list is kept,
\* the error shown, loading over
C28_Witness ==
    /\ \E f \in DOMAIN ui.fetches :
          ui.fetches[f].pc = "done" /\ ui.fetches[f].outcome = "throws"
    /\ ui.error = NetworkMessage
    /\ ui.loading = FALSE
    /\ Len(ui.animals) >= 2

(***************************************************************************)
(* C29.  Web page: when a submit fails (an answer that is not ok, or a     *)
(* network error) the fields of the form stay as entered and error is set; *)
(* handleSubmit resets the form to its defaults and clears error only      *)
(* after the POST succeeded and the fetchAnimals that follows has ended.   *)
(***************************************************************************)
\* the step in which submit s runs its catch
SubmitFails(s) ==
    /\ s \in DOMAIN ui.submits
    /\ ui.submits[s].pc = "answered"
    /\ ui.submits[s].outcome # "ok"
    /\ ui'.submits[s].pc # "answered"

\* a step of handleSubmit, after its first await, that changes the form or
\* clears the error
SubmitResets ==
    /\ ui.submits # <<>>
    /\ Len(ui'.submits) = Len(ui.submits)
    /\ ui'.submits # ui.submits
    /\ \/ ui'.formData # ui.formData
       \/ ui.error # NoError /\ ui'.error = NoError

====
